---- MODULE Spec2Model ----
(***************************************************************************)
(* mmlatex.py: an indented outline (a list of text lines) is turned into   *)
(* a TikZ mind map plus a longtable of the nodes.                          *)
(*                                                                         *)
(* A Python string is a sequence of one-character strings.  The output is  *)
(* a sequence of pieces, one per string the code concatenates: the fixed   *)
(* templates are named pieces, the strings built from the input carry the  *)
(* values they are built from.                                             *)
(***************************************************************************)
EXTENDS Integers, Sequences, FiniteSets, TLC

VARIABLES lines, pc, i, table_data, tikz_nodes, current_depth, angle_index,
          root_node_definition, full_latex

vars == <<lines, pc, i, table_data, tikz_nodes, current_depth, angle_index,
          root_node_definition, full_latex>>

(***************************************************************************)
(* Bounds of the model.                                                    *)
(***************************************************************************)
\* longest input, in lines, of the outline specification
MaxLines == 5
\* deepest indentation of a line of the outline pool, in indent levels
MaxIndentLevel == 3
\* longest input, in lines, of the angle specification
MaxAngleLines == 9
\* longest label of the escaping specification, in characters
MaxLen == 4
\* longest input, in lines, of the scenario specification
MaxScenarioLines == 4
\* longest line of the parsing specification, in characters
MaxParseLen == 9
\* longest run of leading spaces of the indentation specification
MaxLeading == 9

(***************************************************************************)
(* Configuration.                                                          *)
(***************************************************************************)
INDENT_SPACES == 4

LEVEL_1_ANGLES == <<150, 30, 270, 210, 90, 330>>

(***************************************************************************)
(* Characters and the str methods the program uses.                        *)
(***************************************************************************)
NL == "\n"
TAB == "\t"
CR == "\r"
\* U+00A0, one character
NBSP == "nbsp"

\* what str.strip() and str.rstrip() remove when called without argument
Whitespace == {" ", TAB, NL, CR, NBSP}

RECURSIVE lstrip(_, _)
lstrip(s, chars) ==
    IF s # <<>> /\ Head(s) \in chars THEN lstrip(Tail(s), chars) ELSE s

RECURSIVE rstrip(_, _)
rstrip(s, chars) ==
    IF s # <<>> /\ s[Len(s)] \in chars
    THEN rstrip(SubSeq(s, 1, Len(s) - 1), chars)
    ELSE s

strip(s) == lstrip(rstrip(s, Whitespace), Whitespace)

\* str.replace(old, new), old non-empty: leftmost, non-overlapping
RECURSIVE replace(_, _, _)
replace(s, old, new) ==
    IF Len(s) < Len(old) THEN s
    ELSE IF SubSeq(s, 1, Len(old)) = old
         THEN new \o replace(SubSeq(s, Len(old) + 1, Len(s)), old, new)
         ELSE <<Head(s)>> \o replace(Tail(s), old, new)

\* str.find(sub), 1-based; 0 when sub does not occur
find(s, sub) ==
    LET hits == {k \in 1..(Len(s) - Len(sub) + 1) :
                     SubSeq(s, k, k + Len(sub) - 1) = sub}
    IN IF hits = {} THEN 0 ELSE CHOOSE k \in hits : \A h \in hits : k <= h

split1_last(s, sep) ==
    LET hits == {k \in 1..(Len(s) - Len(sep) + 1) :
                     SubSeq(s, k, k + Len(sep) - 1) = sep}
        k == IF hits = {} THEN 0 ELSE CHOOSE h \in hits : \A g \in hits : g <= h
    IN IF k = 0 THEN <<s>>
       ELSE <<SubSeq(s, 1, k - 1), SubSeq(s, k + Len(sep), Len(s))>>

\* str.split(sep, 1)
split1(s, sep) ==
    LET k == find(s, sep)
    IN IF k = 0 THEN <<s>>
       ELSE <<SubSeq(s, 1, k - 1), SubSeq(s, k + Len(sep), Len(s))>>

\* n * " "
Pad(n) == [k \in 1..n |-> " "]

BACKSLASH == "\\"
TEXTBACKSLASH ==
    <<BACKSLASH, "t", "e", "x", "t", "b", "a", "c", "k", "s", "l", "a", "s", "h", " ">>
DELIMITER == <<" ", "-", " ">>

(***************************************************************************)
(* generate_latex_table                                                    *)
(***************************************************************************)
escape_cell_swapped(s) ==
    replace(replace(replace(replace(s, <<"&">>, <<BACKSLASH, "&">>),
                            <<"%">>, <<BACKSLASH, "%">>),
                    <<"_">>, <<BACKSLASH, "_">>),
            <<BACKSLASH>>, TEXTBACKSLASH)

\* the chain of replace calls of a table cell
escape_cell(s) ==
    replace(replace(replace(replace(s, <<BACKSLASH>>, TEXTBACKSLASH),
                            <<"&">>, <<BACKSLASH, "&">>),
                    <<"%">>, <<BACKSLASH, "%">>),
            <<"_">>, <<BACKSLASH, "_">>)

\* the rows appended in the loop, between the fixed head and foot
table_rows(data) ==
    [k \in 1..Len(data) |->
        [node_name |-> escape_cell(data[k].node),
         description |-> escape_cell(data[k].desc)]]

generate_latex_table(data) == [kind |-> "latex_table", rows |-> table_rows(data)]

(***************************************************************************)
(* get_indentation_level, parse_line                                       *)
(***************************************************************************)
get_indentation_level_half(line) ==
    LET clean_line == replace(line, <<NBSP>>, <<" ">>)
        leading_spaces == Len(clean_line) - Len(lstrip(clean_line, {" "}))
    IN leading_spaces \div (INDENT_SPACES \div 2)

get_indentation_level_plain(line) ==
    LET leading_spaces == Len(line) - Len(lstrip(line, {" "}))
    IN leading_spaces \div INDENT_SPACES

get_indentation_level(line) ==
    LET clean_line == replace(line, <<NBSP>>, <<" ">>)
        leading_spaces == Len(clean_line) - Len(lstrip(clean_line, {" "}))
    IN leading_spaces \div INDENT_SPACES

parse_line(line) ==
    LET full_text == strip(line)
        parts == split1(full_text, DELIMITER)
        concept_text == strip(parts[1])
        description == IF Len(parts) > 1 THEN strip(parts[2]) ELSE <<>>
    IN <<concept_text, description>>

(***************************************************************************)
(* generate_tikz_code, one operator per step                               *)
(***************************************************************************)
\* the emitter's locals
Locals(td, tn, cd, ai) ==
    [table_data |-> td, tikz_nodes |-> tn, current_depth |-> cd, angle_index |-> ai]

Locals0 == Locals(<<>>, <<>>, 0, 0)

is_blank(line) == strip(rstrip(line, Whitespace)) = <<>>

safe_root_of(root_concept) ==
    replace(replace(root_concept, <<"&">>, <<BACKSLASH, "&">>),
            <<"%">>, <<BACKSLASH, "%">>)

formatted_root_of(root_concept) ==
    replace(safe_root_of(root_concept), <<" ">>, <<BACKSLASH, BACKSLASH, " ">>)

root_node_of(line) ==
    LET root_line == rstrip(line, Whitespace)
        parsed == parse_line(root_line)
    IN [kind |-> "root", text |-> formatted_root_of(parsed[1])]

root_row_skipped(td, row) == td

root_row(td, row) == Append(td, row)

\* 1. Process Root Node
root_step(st, line) ==
    LET root_line == rstrip(line, Whitespace)
        parsed == parse_line(root_line)
    IN [st EXCEPT !.table_data =
            root_row(@, [node |-> parsed[1], desc |-> parsed[2]])]

clamp_depth_unfloored(raw_depth, cd) == IF raw_depth > cd + 1 THEN cd + 1 ELSE raw_depth

clamp_depth_unclamped(raw_depth, cd) == IF raw_depth < 1 THEN 1 ELSE raw_depth

\* Safety: Force depth to be at least 1 and at most +1 of previous
clamp_depth(raw_depth, cd) ==
    LET depth == IF raw_depth < 1 THEN 1 ELSE raw_depth
    IN IF depth > cd + 1 THEN cd + 1 ELSE depth

must_close_strict(cd, depth) == depth < cd

\* stepping back or staying at the same level
must_close(cd, depth) == depth <= cd

brackets_to_close_short(cd, depth) == cd - depth

brackets_to_close(cd, depth) == (cd - depth) + 1

safe_concept_of(concept_text) ==
    replace(replace(replace(concept_text, <<"&">>, <<BACKSLASH, "&">>),
                    <<"%">>, <<BACKSLASH, "%">>),
            <<"_">>, <<BACKSLASH, "_">>)

angle_of(ai) == LEVEL_1_ANGLES[(ai % Len(LEVEL_1_ANGLES)) + 1]

next_angle_index_always(ai, depth) == ai + 1

\* angle_index += 1, in the depth == 1 branch only
next_angle_index(ai, depth) == IF depth = 1 THEN ai + 1 ELSE ai

child_row_front(td, row) == <<row>> \o td

child_row(td, row) == Append(td, row)

\* 2. Process Child Nodes: the body of the loop for a line that is not blank
child_step(st, raw) ==
    LET line == rstrip(raw, Whitespace)
        raw_depth == get_indentation_level(line)
        depth == clamp_depth(raw_depth, st.current_depth)
        parsed == parse_line(line)
        closes == IF must_close(st.current_depth, depth)
                  THEN <<[kind |-> "close", indent |-> depth,
                          count |-> brackets_to_close(st.current_depth, depth)]>>
                  ELSE <<>>
        open == IF depth = 1
                THEN [kind |-> "child", indent |-> depth,
                      grow |-> angle_of(st.angle_index)]
                ELSE [kind |-> "child", indent |-> depth]
        node == [kind |-> "node", indent |-> depth + 1,
                 text |-> safe_concept_of(parsed[1])]
    IN [table_data |-> child_row(st.table_data,
                                 [node |-> parsed[1], desc |-> parsed[2]]),
        tikz_nodes |-> st.tikz_nodes \o closes \o <<open, node>>,
        current_depth |-> depth,
        angle_index |-> next_angle_index(st.angle_index, depth)]

\* the whole loop body: a blank line is skipped
loop_step(st, raw) == IF is_blank(raw) THEN st ELSE child_step(st, raw)

final_close_one(cd) ==
    IF cd > 0 THEN <<[kind |-> "close", indent |-> 0, count |-> 1]>> ELSE <<>>

\* Close any remaining open child nodes
final_close(cd) ==
    IF cd > 0 THEN <<[kind |-> "close", indent |-> 0, count |-> cd]>> ELSE <<>>

assemble_root_last(st, root) ==
    <<[kind |-> "LATEX_START_TEMPLATE"]>>
    \o st.tikz_nodes \o final_close(st.current_depth)
    \o <<root, [kind |-> "TIKZ_END"], generate_latex_table(st.table_data),
         [kind |-> "LATEX_END"]>>

\* the returned concatenation
assemble(st, root) ==
    <<[kind |-> "LATEX_START_TEMPLATE"], root>>
    \o st.tikz_nodes \o final_close(st.current_depth)
    \o <<[kind |-> "TIKZ_END"], generate_latex_table(st.table_data),
         [kind |-> "LATEX_END"]>>

RECURSIVE run_loop(_, _)
run_loop(st, rest) ==
    IF rest = <<>> THEN st ELSE run_loop(loop_step(st, Head(rest)), Tail(rest))

\* generate_tikz_code as a function of its argument
generate_tikz_code(ls) ==
    IF ls = <<>> THEN <<>>
    ELSE assemble(run_loop(root_step(Locals0, ls[1]), Tail(ls)), root_node_of(ls[1]))

empty_document_unchecked == <<>>

\* LATEX_START_TEMPLATE + '\n' + LATEX_END
empty_document == <<[kind |-> "LATEX_START_TEMPLATE"],
                    [kind |-> "text", text |-> <<NL>>],
                    [kind |-> "LATEX_END"]>>

\* main, from the lines read to the text written
main_output(ls) == IF ls = <<>> THEN empty_document ELSE generate_tikz_code(ls)

(***************************************************************************)
(* The inputs.                                                             *)
(***************************************************************************)
Inputs(pool, n) == UNION {[1..k -> pool] : k \in 0..n}

\* lines as readlines() returns them, indented by whole levels: a labelled
\* first level, plain lines at the other levels, a whitespace-only line
OutlinePool ==
    {Pad(INDENT_SPACES * k) \o <<"a", NL>> : k \in (0..MaxIndentLevel) \ {1}}
    \cup {Pad(INDENT_SPACES) \o <<"b", "&", "_", " ", "-", " ", "c", "%", NL>>,
          <<" ", " ", NL>>}

\* children of the first two levels, and the same files with a blank second line
AnglePool == {Pad(INDENT_SPACES) \o <<"a", NL>>, Pad(2 * INDENT_SPACES) \o <<"a", NL>>}
AngleInputs ==
    LET plain == Inputs(AnglePool, MaxAngleLines)
    IN plain \cup {<<Head(ls), <<NL>>>> \o Tail(ls) : ls \in plain \ {<<>>}}

\* the lines of the scenario, indented by 2 and 4 spaces and by 4 and 8
Root == <<"R", "o", "o", "t">>
ChildA == <<"C", "h", "i", "l", "d", "A", " ", "-", " ", "d", "e", "s", "c", "A">>
GrandchildA == <<"G", "r", "a", "n", "d", "c", "h", "i", "l", "d", "A">>
ChildB == <<"C", "h", "i", "l", "d", "B">>
ScenarioPool ==
    {Root, <<>>}
    \cup {Pad(n) \o ChildA : n \in {2, INDENT_SPACES}}
    \cup {Pad(n) \o GrandchildA : n \in {4, 2 * INDENT_SPACES}}
    \cup {Pad(n) \o ChildB : n \in {2, INDENT_SPACES}}

\* a file of one or two lines whose texts hold the characters the table escapes
EscapeAlphabet == {BACKSLASH, "&", "%", "_", "a"}
EscapeExample == <<"A", " ", "&", " ", "B", "_", "C">>
EscapeTexts ==
    {t \in UNION {[1..n -> EscapeAlphabet] : n \in 1..MaxLen} : TRUE}
    \cup {EscapeExample}
EscapeInputs ==
    {<<>>}
    \cup {<<t \o <<NL>>>> : t \in EscapeTexts}
    \cup {<<t \o <<NL>>, <<NL>>>> : t \in EscapeTexts}
    \cup {<<t \o <<NL>>, Pad(INDENT_SPACES) \o <<"b">> \o DELIMITER \o t \o <<NL>>>> :
             t \in EscapeTexts}

\* a root line and a child line over a space, a hyphen and a letter
ParseAlphabet == {" ", "-", "a"}
ParseTexts == UNION {[1..n -> ParseAlphabet] : n \in 0..MaxParseLen}
ParseInputs ==
    {<<>>} \cup {<<<<"a", NL>>, t \o <<NL>>>> : t \in ParseTexts}

\* a root, a child, a grandchild, and a line led by spaces and non-breaking
\* spaces: a label, a tab before more spaces and a label, or nothing
LeadingRuns == UNION {[1..n -> {" ", NBSP}] : n \in 0..MaxLeading}
IndentRests == {<<"a", NL>>, <<TAB>> \o Pad(INDENT_SPACES) \o <<"a", NL>>, <<NL>>}
IndentInputs ==
    {<<>>}
    \cup {<<<<"a", NL>>, Pad(INDENT_SPACES) \o <<"a", NL>>,
            Pad(2 * INDENT_SPACES) \o <<"a", NL>>, lead \o rest>> :
             lead \in LeadingRuns, rest \in IndentRests}

(***************************************************************************)
(* The program as a state machine.                                         *)
(***************************************************************************)
State == Locals(table_data, tikz_nodes, current_depth, angle_index)

SetState(st) ==
    /\ table_data' = st.table_data
    /\ tikz_nodes' = st.tikz_nodes
    /\ current_depth' = st.current_depth
    /\ angle_index' = st.angle_index

InitWith(inputs) ==
    /\ lines \in inputs
    /\ pc = "main"
    /\ i = 0
    /\ table_data = <<>>
    /\ tikz_nodes = <<>>
    /\ current_depth = 0
    /\ angle_index = 0
    /\ root_node_definition = <<>>
    /\ full_latex = <<>>

Init == InitWith(Inputs(OutlinePool, MaxLines))

\* main with no input line: the emitter is not called
MainEmpty ==
    /\ pc = "main"
    /\ lines = <<>>
    /\ full_latex' = empty_document
    /\ pc' = "done"
    /\ UNCHANGED <<lines, i, table_data, tikz_nodes, current_depth, angle_index,
                   root_node_definition>>

\* main calls generate_tikz_code, which processes the root line
ProcessRoot ==
    /\ pc = "main"
    /\ lines # <<>>
    /\ SetState(root_step(State, lines[1]))
    /\ root_node_definition' = root_node_of(lines[1])
    /\ i' = 2
    /\ pc' = "loop"
    /\ UNCHANGED <<lines, full_latex>>

\* an iteration of the loop that hits `continue`
SkipBlank ==
    /\ pc = "loop"
    /\ i <= Len(lines)
    /\ is_blank(lines[i])
    /\ i' = i + 1
    /\ UNCHANGED <<lines, pc, table_data, tikz_nodes, current_depth, angle_index,
                   root_node_definition, full_latex>>

\* an iteration of the loop for a child node
ProcessChild ==
    /\ pc = "loop"
    /\ i <= Len(lines)
    /\ ~is_blank(lines[i])
    /\ SetState(child_step(State, lines[i]))
    /\ i' = i + 1
    /\ UNCHANGED <<lines, pc, root_node_definition, full_latex>>

\* the loop is over: the last closes, the table, the returned text, written out
Finish ==
    /\ pc = "loop"
    /\ i > Len(lines)
    /\ full_latex' = assemble(State, root_node_definition)
    /\ pc' = "done"
    /\ UNCHANGED <<lines, i, table_data, tikz_nodes, current_depth, angle_index,
                   root_node_definition>>

Next == MainEmpty \/ ProcessRoot \/ SkipBlank \/ ProcessChild \/ Finish

Spec == Init /\ [][Next]_vars

\* the same program on lines led by spaces, non-breaking spaces and tabs
InitIndent == InitWith(IndentInputs)
SpecIndent == InitIndent /\ [][Next]_vars

\* the same program on lines to split
InitParse == InitWith(ParseInputs)
SpecParse == InitParse /\ [][Next]_vars

\* the same program on many top-level branches
InitAngles == InitWith(AngleInputs)
SpecAngles == InitAngles /\ [][Next]_vars

\* the same program on the lines of the scenario
InitScenario == InitWith(Inputs(ScenarioPool, MaxScenarioLines))
SpecScenario == InitScenario /\ [][Next]_vars

\* the same program on texts to escape
InitEscape == InitWith(EscapeInputs)
SpecEscape == InitEscape /\ [][Next]_vars

(***************************************************************************)
(* What the claims speak of.                                               *)
(***************************************************************************)
OfKind(seq, kind) == SelectSeq(seq, LAMBDA p : p.kind = kind)

RECURSIVE SumCounts(_)
SumCounts(seq) == IF seq = <<>> THEN 0 ELSE Head(seq).count + SumCounts(Tail(seq))

\* the 'child ... {' and the '}' of a sequence of pieces
OpenCount(seq) == Len(OfKind(seq, "child"))
CloseCount(seq) == SumCounts(OfKind(seq, "close"))

Done == pc = "done"

\* a line that is whitespace-only
Blank(line) == \A k \in 1..Len(line) : line[k] \in Whitespace
NonBlank(ls) == SelectSeq(ls, LAMBDA l : ~Blank(l))

\* the lines after the first that the loop has been through, blank ones left out
ChildLinesSeen == NonBlank(SubSeq(lines, 2, i - 1))

\* the depth of each child node emitted so far, in document order
ChildDepths == [k \in 1..OpenCount(tikz_nodes) |-> OfKind(tikz_nodes, "child")[k].indent]

\* the rows of the table of the output
OutputRows == OfKind(full_latex, "latex_table")[1].rows

Min(a, b) == IF a <= b THEN a ELSE b
Max(a, b) == IF a >= b THEN a ELSE b

(***************************************************************************)
(* The claims.                                                             *)
(***************************************************************************)
\* C1: for a non-empty input, once all lines are processed the output holds as
\* many branch closes as branch opens.
C1_Balanced ==
    (Done /\ lines # <<>>) => OpenCount(full_latex) = CloseCount(full_latex)

\* three branches were opened, and one step back closed two at once
C1_Witness ==
    /\ Done
    /\ OpenCount(full_latex) >= 3
    /\ \E k \in 1..Len(tikz_nodes) :
           tikz_nodes[k].kind = "close" /\ tikz_nodes[k].count >= 2

\* C2: for a non-empty input the table has as many rows as the input has
\* non-blank lines, wherever the blank lines are.
C2_RowsAreNonBlankLines ==
    (Done /\ lines # <<>>) => Len(OutputRows) = Len(NonBlank(lines))

\* C3: the depth of every node after the root is min(max(1, raw depth),
\* depth of the previous node + 1), the root counting as 0.
C3_DepthClamped ==
    /\ Len(ChildDepths) = Len(ChildLinesSeen)
    /\ \A k \in 1..Len(ChildDepths) :
           LET prev == IF k = 1 THEN 0 ELSE ChildDepths[k - 1]
               raw == get_indentation_level(ChildLinesSeen[k])
           IN /\ ChildDepths[k] = Min(Max(1, raw), prev + 1)
              /\ ChildDepths[k] >= 1
              /\ ChildDepths[k] <= prev + 1

\* a first child indented 8 spaces got depth 1, and a later node stepped back
\* two levels at once
C3_Witness ==
    /\ Len(ChildDepths) >= 4
    /\ get_indentation_level(ChildLinesSeen[1]) = 2
    /\ ChildDepths[1] = 1
    /\ \E k \in 2..Len(ChildDepths) : ChildDepths[k] = ChildDepths[k - 1] - 2

\* the first line of the input that is not whitespace-only
FirstNonBlank == NonBlank(lines)[1]

\* C4: the root is the first non-blank line of the input: that line gives the
\* root content node and the first table row, and leading blank lines give no
\* node.
C4_RootIsFirstNonBlankLine ==
    (Done /\ lines # <<>>) =>
        IF NonBlank(lines) = <<>>
        THEN OfKind(full_latex, "root") = <<>> /\ OutputRows = <<>>
        ELSE /\ OfKind(full_latex, "root")
                    = <<[kind |-> "root",
                         text |-> formatted_root_of(parse_line(FirstNonBlank)[1])]>>
             /\ OutputRows[1]
                    = [node_name |-> escape_cell(parse_line(FirstNonBlank)[1]),
                       description |-> escape_cell(parse_line(FirstNonBlank)[2])]

\* the branch opens emitted so far, and those of depth 1 among the first k
Opened == OfKind(tikz_nodes, "child")
TopLevelBefore(k) == Cardinality({j \in 1..(k - 1) : Opened[j].indent = 1})

\* C5: the k-th depth-1 branch opened carries LEVEL_1_ANGLES[k mod 6]; a deeper
\* branch carries no angle and does not advance angle_index.
C5_AnglesCycle ==
    /\ \A k \in 1..Len(Opened) :
           IF Opened[k].indent = 1
           THEN /\ "grow" \in DOMAIN Opened[k]
                /\ Opened[k].grow = <<150, 30, 270, 210, 90, 330>>[(TopLevelBefore(k) % 6) + 1]
           ELSE "grow" \notin DOMAIN Opened[k]
    /\ angle_index = TopLevelBefore(Len(Opened) + 1)

\* the seventh depth-1 branch got the first angle again, with a deeper branch
\* opened before it
C5_Witness ==
    \E k \in 1..Len(Opened) :
        /\ Opened[k].indent = 1
        /\ TopLevelBefore(k) = 6
        /\ Opened[k].grow = 150
        /\ \E j \in 1..(k - 1) : Opened[j].indent > 1

\* C6: blank lines are skipped at every position: the output for an input is
\* the output for the same input with its blank lines removed.
C6_BlankLinesVanish == Done => full_latex = main_output(NonBlank(lines))

\* the scenario as the spec writes it, and with its lines indented by 4 and 8
ScenarioAsWritten == <<Root, Pad(2) \o ChildA, Pad(4) \o GrandchildA, Pad(2) \o ChildB>>
ScenarioIndented ==
    <<Root, Pad(INDENT_SPACES) \o ChildA, Pad(2 * INDENT_SPACES) \o GrandchildA,
      Pad(INDENT_SPACES) \o ChildB>>

\* the depths of the nodes of the output, the root counting as 0
NodeDepths ==
    [k \in 1..Len(OfKind(full_latex, "root")) |-> 0]
    \o [k \in 1..Len(OfKind(full_latex, "node")) |-> OfKind(full_latex, "node")[k].indent - 1]

\* what a piece of the branch structure is, without its label and indentation
ShapeOf(p) ==
    IF p.kind = "child"
    THEN IF "grow" \in DOMAIN p THEN <<"open", p.grow>> ELSE <<"open">>
    ELSE IF p.kind = "close" THEN <<"close", p.count>> ELSE <<"node">>

Branches == SelectSeq(full_latex, LAMBDA p : p.kind \in {"child", "close", "node"})
Shape == [k \in 1..Len(Branches) |-> ShapeOf(Branches[k])]

\* the outcome the scenario gives: one branch with the first angle, a nested
\* branch without angle, two closes, one branch with the second angle, one close
ScenarioOutcome ==
    /\ NodeDepths = <<0, 1, 2, 1>>
    /\ Shape = <<<<"open", LEVEL_1_ANGLES[1]>>, <<"node">>, <<"open">>, <<"node">>,
                 <<"close", 2>>, <<"open", LEVEL_1_ANGLES[2]>>, <<"node">>,
                 <<"close", 1>>>>

\* C7 as stated: the scenario with lines indented by 2, 4 and 2 spaces gives
\* depths [0,1,2,1], a nested branch for GrandchildA, two closes at ChildB.
C7_ScenarioAsWritten == (Done /\ lines = ScenarioAsWritten) => ScenarioOutcome

\* C7: with lines indented by 2, 4 and 2 spaces the depths are [0,1,1,1] and the
\* three children are siblings with the first three angles, each closed once;
\* the outcome of the scenario is that of lines indented by 4, 8 and 4 spaces.
C7_Scenario ==
    /\ (Done /\ lines = ScenarioAsWritten) =>
           /\ NodeDepths = <<0, 1, 1, 1>>
           /\ Shape = <<<<"open", LEVEL_1_ANGLES[1]>>, <<"node">>, <<"close", 1>>,
                        <<"open", LEVEL_1_ANGLES[2]>>, <<"node">>, <<"close", 1>>,
                        <<"open", LEVEL_1_ANGLES[3]>>, <<"node">>, <<"close", 1>>>>
    /\ (Done /\ lines = ScenarioIndented) => ScenarioOutcome

\* the scenario as written has been processed to the end
C7_Witness == Done /\ lines = ScenarioAsWritten /\ Len(Shape) = 9

\* the scenario indented by 4 and 8 spaces has been processed to the end
C7_WitnessIndented == Done /\ lines = ScenarioIndented /\ Len(Shape) = 8

\* C8: for an empty input the emitter is not run and the output is the header,
\* a newline and the footer: no root node, no branch, no table row.
C8_EmptyInput ==
    (Done /\ lines = <<>>) =>
        /\ full_latex = <<[kind |-> "LATEX_START_TEMPLATE"],
                          [kind |-> "text", text |-> <<NL>>],
                          [kind |-> "LATEX_END"]>>
        /\ i = 0
        /\ root_node_definition = <<>>
        /\ table_data = <<>>
        /\ tikz_nodes = <<>>

\* the program has ended on the empty input
C8_Witness == Done /\ lines = <<>> /\ Len(full_latex) = 3

\* the lines that became nodes, in document order: the first, then the
\* non-blank ones among the others
NodeLines == <<lines[1]>> \o NonBlank(Tail(lines))

\* the content nodes of the output, the root first
ContentNodes == OfKind(full_latex, "root") \o OfKind(full_latex, "node")

\* C9: the table rows are in the document order of the nodes, root first: row k
\* holds the label and description of node k, whose escaped label is content
\* node k of the tree.
C9_RowsInDocumentOrder ==
    (Done /\ lines # <<>>) =>
        /\ Len(OutputRows) = Len(NodeLines)
        /\ Len(ContentNodes) = Len(NodeLines)
        /\ \A k \in 1..Len(NodeLines) :
               LET parsed == parse_line(NodeLines[k])
               IN /\ OutputRows[k] = [node_name |-> escape_cell(parsed[1]),
                                      description |-> escape_cell(parsed[2])]
                  /\ ContentNodes[k].text =
                         IF k = 1 THEN formatted_root_of(parsed[1])
                         ELSE safe_concept_of(parsed[1])

\* three rows or more, the first two of different labels, one with a description
C9_Witness ==
    /\ Done
    /\ Len(table_data) >= 3
    /\ OutputRows[1].node_name # OutputRows[2].node_name
    /\ \E k \in 1..Len(OutputRows) : OutputRows[k].description # <<>>

\* a character of a table cell, escaped
EscapeChar(c) ==
    CASE c = BACKSLASH -> TEXTBACKSLASH
      [] c = "&" -> <<BACKSLASH, "&">>
      [] c = "%" -> <<BACKSLASH, "%">>
      [] c = "_" -> <<BACKSLASH, "_">>
      [] OTHER -> <<c>>

RECURSIVE EscapeEach(_)
EscapeEach(s) == IF s = <<>> THEN <<>> ELSE EscapeChar(Head(s)) \o EscapeEach(Tail(s))

\* C10: in a table row every backslash, '&', '%' and '_' of the label and of
\* the description is escaped exactly once, and no backslash that escaping
\* put there is escaped again; 'A & B_C' becomes 'A \& B\_C'.
C10_EscapedOnce ==
    (Done /\ lines # <<>>) =>
        \A k \in 1..Len(OutputRows) :
            /\ OutputRows[k].node_name = EscapeEach(table_data[k].node)
            /\ OutputRows[k].description = EscapeEach(table_data[k].desc)
            /\ table_data[k].node = EscapeExample =>
                   OutputRows[k].node_name
                       = <<"A", " ", BACKSLASH, "&", " ", "B", BACKSLASH, "_", "C">>

\* a row whose label holds all four characters and a row whose description does
C10_Witness ==
    /\ Done
    /\ lines # <<>>
    /\ Len(OutputRows) = Len(table_data)
    /\ \E k \in 1..Len(table_data) :
           {BACKSLASH, "&", "%", "_"}
               \subseteq {table_data[k].node[j] : j \in 1..Len(table_data[k].node)}
    /\ \E k \in 1..Len(table_data) :
           {BACKSLASH, "&", "%", "_"}
               \subseteq {table_data[k].desc[j] : j \in 1..Len(table_data[k].desc)}

\* a text without the whitespace around it
Trim(s) ==
    LET inked == {k \in 1..Len(s) : s[k] \notin Whitespace}
    IN IF inked = {} THEN <<>>
       ELSE SubSeq(s, CHOOSE k \in inked : \A j \in inked : k <= j,
                      CHOOSE k \in inked : \A j \in inked : j <= k)

\* where ' - ' occurs in a text
DelimiterAt(s) == {k \in 1..(Len(s) - 2) : <<s[k], s[k + 1], s[k + 2]>> = <<" ", "-", " ">>}

\* the label and description claimed for a line
LabelAndDescription(line) ==
    LET s == Trim(line)
    IN IF DelimiterAt(s) = {} THEN <<s, <<>>>>
       ELSE LET k == CHOOSE k \in DelimiterAt(s) : \A j \in DelimiterAt(s) : k <= j
            IN <<Trim(SubSeq(s, 1, k - 1)), Trim(SubSeq(s, k + 3, Len(s)))>>

\* C11: a line is split at the first ' - ' of the stripped line only: the label
\* is the trimmed text before it, the description the trimmed text after it;
\* without ' - ' the label is the stripped line and the description is empty.
C11_SplitAtFirstDelimiter ==
    /\ \A k \in 1..Len(table_data) :
           <<table_data[k].node, table_data[k].desc>> = LabelAndDescription(NodeLines[k])
    /\ (Len(table_data) = 2
          /\ lines[2] = <<"a", " ", "-", " ", "a", " ", "-", " ", "a", NL>>) =>
           /\ table_data[2].node = <<"a">>
           /\ table_data[2].desc = <<"a", " ", "-", " ", "a">>

\* a child line with two ' - ' was parsed, its description keeping the second
C11_Witness ==
    /\ Len(table_data) = 2
    /\ Cardinality(DelimiterAt(Trim(lines[2]))) >= 2
    /\ DelimiterAt(table_data[2].desc) # {}
    /\ table_data[2].node # <<>>

\* C12: a non-root node of clamped depth d processed at current_depth c emits
\* (c - d) + 1 closes before the open when d <= c and no close when d = c + 1,
\* then exactly one open and the node's content, and sets current_depth to d.
C12_ClosesThenOneOpen ==
    [][(pc = "loop" /\ i <= Len(lines) /\ ~Blank(lines[i])) =>
          LET c == current_depth
              d == Min(Max(1, get_indentation_level(lines[i])), c + 1)
              emitted == SubSeq(tikz_nodes', Len(tikz_nodes) + 1, Len(tikz_nodes'))
              closed == OfKind(emitted, "close")
              rest == SubSeq(emitted, Len(closed) + 1, Len(emitted))
          IN /\ current_depth' = d
             /\ SubSeq(tikz_nodes', 1, Len(tikz_nodes)) = tikz_nodes
             /\ IF d <= c
                THEN /\ Len(closed) = 1
                     /\ emitted[1].kind = "close"
                     /\ emitted[1].count = (c - d) + 1
                ELSE d = c + 1 /\ closed = <<>>
             /\ Len(rest) = 2
             /\ rest[1].kind = "child" /\ rest[1].indent = d
             /\ rest[2].kind = "node"
             /\ rest[2].text = safe_concept_of(parse_line(lines[i])[1])]_vars

\* the loop has opened a sibling at the same level (one close), gone one level
\* down (no close) and stepped back (two closes), and is still running
C12_Witness ==
    /\ pc = "loop"
    /\ \E k \in 1..Len(tikz_nodes) : tikz_nodes[k].kind = "child" /\ tikz_nodes[k].indent = 2
    /\ \E k \in 1..Len(tikz_nodes) : tikz_nodes[k].kind = "close" /\ tikz_nodes[k].count = 2
    /\ \E k \in 1..Len(tikz_nodes) : tikz_nodes[k].kind = "close" /\ tikz_nodes[k].count = 1

\* the depths assigned to the lines ls that follow a node of depth prev
RECURSIVE DepthsAfter(_, _)
DepthsAfter(ls, prev) ==
    IF ls = <<>> THEN <<>>
    ELSE LET d == Min(Max(1, get_indentation_level(Head(ls))), prev + 1)
         IN <<d>> \o DepthsAfter(Tail(ls), d)

\* the explicit tree over the nodes after the root, given their depths ds: the
\* parent of node k is the nearest preceding node one level up, 0 being the root
ParentOf(ds, k) ==
    IF ds[k] = 1 THEN 0
    ELSE CHOOSE j \in 1..(k - 1) :
             /\ ds[j] = ds[k] - 1
             /\ \A m \in (j + 1)..(k - 1) : ds[m] # ds[k] - 1

\* the tokens of node k: its open, with the angle of its rank among the
\* children of the root, and its content
OpenToken(ds, k) ==
    IF ds[k] = 1
    THEN <<"open", LEVEL_1_ANGLES[(Cardinality({j \in 1..(k - 1) : ds[j] = 1})
                                      % Len(LEVEL_1_ANGLES)) + 1]>>
    ELSE <<"open">>
ContentToken(ls, k) == <<"node", safe_concept_of(parse_line(ls[k])[1])>>

\* depth-first rendering of the children of node p among the nodes k, k+1, ...
RECURSIVE RenderChildren(_, _, _, _)
RenderChildren(ls, ds, p, k) ==
    IF k > Len(ds) THEN <<>>
    ELSE (IF ParentOf(ds, k) = p
          THEN <<OpenToken(ds, k), ContentToken(ls, k)>>
               \o RenderChildren(ls, ds, k, k + 1) \o <<<<"close">>>>
          ELSE <<>>)
         \o RenderChildren(ls, ds, p, k + 1)

\* the tree of an input, rendered
TreeRendering(input) ==
    LET ls == NonBlank(Tail(input))
    IN RenderChildren(ls, DepthsAfter(ls, 0), 0, 1)

\* the tokens of the pieces the emitter appended, a close piece giving one
\* token per bracket
RECURSIVE TokensOf(_)
TokensOf(seq) ==
    IF seq = <<>> THEN <<>>
    ELSE LET p == Head(seq)
         IN (IF p.kind = "close" THEN [k \in 1..p.count |-> <<"close">>]
             ELSE IF p.kind = "node" THEN <<<<"node", p.text>>>>
             ELSE IF "grow" \in DOMAIN p THEN <<<<"open", p.grow>>>>
             ELSE <<<<"open">>>>)
            \o TokensOf(Tail(seq))

\* C13: the open, content and close tokens the emitter produces are those of
\* the depth-first rendering of the explicit tree in which the parent of a node
\* is the nearest preceding node one level up.
C13_SameAsTreeRendering ==
    (Done /\ lines # <<>>) => TokensOf(Branches) = TreeRendering(lines)

\* a tree with a node at the third level and a second top-level branch after it
C13_Witness ==
    /\ Done
    /\ lines # <<>>
    /\ Len(NonBlank(Tail(lines))) = 4
    /\ DepthsAfter(NonBlank(Tail(lines)), 0) = <<1, 2, 3, 1>>
    /\ Len(TokensOf(Branches)) = 12

\* where the pieces of a kind stand in the output
PositionsOf(kinds) == {k \in 1..Len(full_latex) : full_latex[k].kind \in kinds}

\* C14: the root content node is emitted exactly once, before every branch
\* open, branch close and child content node; emitting it leaves current_depth
\* and angle_index at 0 and adds no open and no close.
C14_RootOnceAndFirst ==
    /\ (pc = "loop" /\ i = 2) =>
           /\ root_node_definition = root_node_of(lines[1])
           /\ current_depth = 0
           /\ angle_index = 0
           /\ tikz_nodes = <<>>
    /\ OfKind(tikz_nodes, "root") = <<>>
    /\ (Done /\ lines # <<>>) =>
           /\ Cardinality(PositionsOf({"root"})) = 1
           /\ \A r \in PositionsOf({"root"}) :
                  \A k \in PositionsOf({"child", "close", "node"}) : r < k

\* the output holds a root with a label and branches with closes after it
C14_Witness ==
    /\ Done
    /\ lines # <<>>
    /\ root_node_definition.text # <<>>
    /\ Cardinality(PositionsOf({"child"})) >= 2
    /\ Cardinality(PositionsOf({"close"})) >= 2

\* the number of leading characters of a line that are a space or a
\* non-breaking space
RECURSIVE LeadingCount(_)
LeadingCount(line) ==
    IF line # <<>> /\ Head(line) \in {" ", NBSP} THEN 1 + LeadingCount(Tail(line)) ELSE 0

\* C15: get_indentation_level returns floor(n / 4) for n the number of leading
\* spaces and non-breaking spaces of the line; a tab ends the count.
C15_IndentationLevel ==
    /\ \A k \in 2..Len(lines) :
           ~Blank(lines[k]) =>
               get_indentation_level(rstrip(lines[k], Whitespace))
                   = LeadingCount(lines[k]) \div 4
    /\ \A k \in 1..Len(ChildDepths) :
           ChildDepths[k] = Min(Max(1, LeadingCount(ChildLinesSeen[k]) \div 4),
                                (IF k = 1 THEN 0 ELSE ChildDepths[k - 1]) + 1)

\* a line led by nine spaces and non-breaking spaces, then a tab and four more
\* spaces, was given depth 2
C15_Witness ==
    /\ pc = "loop"
    /\ i = 5
    /\ LeadingCount(lines[4]) = 9
    /\ \E k \in 1..9 : lines[4][k] = NBSP
    /\ \E k \in 1..9 : lines[4][k] = " "
    /\ lines[4][10] = TAB
    /\ Len(ChildDepths) = 3
    /\ ChildDepths[3] = 2

\* the first p pieces the emitter appended, and the branches open after them
Emitted(p) == SubSeq(tikz_nodes, 1, p)
OpenAfter(p) == OpenCount(Emitted(p)) - CloseCount(Emitted(p))

\* C16: after each non-root node the opens emitted so far minus the closes
\* emitted so far equal current_depth, which is that node's depth; so every
\* node's content stands at a bracket nesting level equal to its depth.
C16_NestingIsDepth ==
    /\ OpenAfter(Len(tikz_nodes)) = current_depth
    /\ ChildDepths # <<>> => current_depth = ChildDepths[Len(ChildDepths)]
    /\ \A p \in 1..Len(tikz_nodes) :
           tikz_nodes[p].kind = "node" =>
               /\ tikz_nodes[p - 1].kind = "child"
               /\ OpenAfter(p) = tikz_nodes[p - 1].indent
               /\ OpenAfter(p) = tikz_nodes[p].indent - 1

\* three branches are open after a node of depth 3, one branch was closed before
C16_Witness ==
    /\ pc = "loop"
    /\ current_depth = 3
    /\ OpenAfter(Len(tikz_nodes)) = 3
    /\ CloseCount(tikz_nodes) >= 1

\* the pieces of the branch structure that the final close phase added
FinalCloses == SubSeq(Branches, Len(tikz_nodes) + 1, Len(Branches))

\* C17: in every prefix of the emitted tokens the closes do not exceed the
\* opens: a close phase asks for at most current_depth closes, and the final
\* close phase emits current_depth closes, none when no child was processed.
C17_NeverOverClosed ==
    /\ \A p \in 0..Len(tikz_nodes) : OpenAfter(p) >= 0
    /\ \A p \in 1..Len(tikz_nodes) :
           tikz_nodes[p].kind = "close" =>
               /\ tikz_nodes[p].count >= 1
               /\ tikz_nodes[p].count <= OpenAfter(p - 1)
    /\ OpenCount(tikz_nodes) = 0 <=> current_depth = 0
    /\ (Done /\ lines # <<>>) =>
           /\ SubSeq(Branches, 1, Len(tikz_nodes)) = tikz_nodes
           /\ SumCounts(FinalCloses) = current_depth
           /\ FinalCloses = IF OpenCount(tikz_nodes) = 0 THEN <<>>
                            ELSE <<[kind |-> "close", indent |-> 0,
                                    count |-> current_depth]>>

\* a run in which one close phase closed every branch then open, and which
\* ended with two branches left for the final close phase
C17_Witness ==
    /\ Done
    /\ lines # <<>>
    /\ current_depth = 2
    /\ FinalCloses # <<>>
    /\ \E p \in 1..Len(tikz_nodes) :
           tikz_nodes[p].kind = "close" /\ tikz_nodes[p].count = OpenAfter(p - 1)

\* C18: once the root is recorded, the branches opened so far are the table
\* rows recorded so far minus one: every processed non-root line adds one row,
\* one branch open and one content node.
C18_OneOpenPerRow ==
    pc \in {"loop", "done"} /\ lines # <<>> =>
        /\ OpenCount(tikz_nodes) = Len(table_data) - 1
        /\ Len(OfKind(tikz_nodes, "node")) = Len(table_data) - 1
        /\ Len(ChildLinesSeen) = Len(table_data) - 1

\* the loop is running with three rows recorded and a blank line skipped
C18_Witness ==
    /\ pc = "loop"
    /\ Len(table_data) = 3
    /\ OpenCount(tikz_nodes) = 2
    /\ i - 2 > Len(ChildLinesSeen)

====
